---------------------------- MODULE Spec2Model ----------------------------
(***************************************************************************)
(* Model of etl_prj_manager.py: the create-remote-prj workflow on GitLab   *)
(* and GitHub (resolve origin, create + import, poll the import, set the   *)
(* default branch, upsert the generated artifacts) against a remote        *)
(* platform whose answers are chosen by the environment.                   *)
(*                                                                         *)
(* Texts are modelled structurally: a project name is a sequence of        *)
(* one-character strings, a file path a tuple of path parts, a file        *)
(* content a sequence of lines, each line a tuple of strings.              *)
(***************************************************************************)
EXTENDS Integers, Sequences, FiniteSets, TLC

VARIABLES
    cfg,        \* config.yml + argv + environment of the invocation
    projects,   \* remote: names of the projects in the group / of the owner
    files,      \* remote: files on the default branch of the destination project
    pc,         \* position of the control flow
    outcome,    \* "running", "ok", or the reason of the non-zero exit
    log,        \* remote requests (and sleeps) of the current run, in order
    now,        \* seconds elapsed on the clock since the wait loop was entered
    deadline,   \* deadline of the wait loop, on the same clock
    origin,     \* name of the origin project as resolved (origin_project.name)
    newName,    \* new_project_name
    todo,       \* upsert calls still to be made by the current artifact stage
    stage,      \* artifact stage whose upserts are in todo
    got,        \* result of the read step of the upsert call in progress
    ncall,      \* ordinal of the upsert call in progress (0: none yet)
    done,       \* the upsert calls that have returned, in order
    runs,       \* invocations so far
    prev        \* outcome and remote files at the end of the previous invocation
                \* (and, where two workflows are compared, its upsert calls)

vars == <<cfg, projects, files, pc, outcome, log, now, deadline, origin, newName,
          todo, stage, got, ncall, done, runs, prev>>

-----------------------------------------------------------------------------
(* Bounds of the model *)

MaxUsers == 2
MaxEntries == 1
MaxRuns == 2
MaxCalls == 3
MaxBusyPolls == 2
MaxNameLen == 5
MaxRows == 2
SlowPoll == 100

(* Program constants *)

timeout_sec == 180
poll_sec == 5

-----------------------------------------------------------------------------
(* Characters and names *)

LowerChars == <<"a", "b", "p", "z", "c", "e", "g", "n", "x", "y">>
UpperChars == <<"A", "B", "P", "Z", "C", "E", "G", "N", "X", "Y">>
Digits == {"9"}

IsAlnum(c) ==
    \/ \E i \in 1..Len(LowerChars) : c = LowerChars[i] \/ c = UpperChars[i]
    \/ c \in Digits

\* str.upper() on one character
UpperChar(c) ==
    IF \E i \in 1..Len(LowerChars) : c = LowerChars[i]
    THEN UpperChars[CHOOSE i \in 1..Len(LowerChars) : c = LowerChars[i]]
    ELSE c

\* str.lower() on one character
LowerChar(c) ==
    IF \E i \in 1..Len(UpperChars) : c = UpperChars[i]
    THEN LowerChars[CHOOSE i \in 1..Len(UpperChars) : c = UpperChars[i]]
    ELSE c

Upper(s) == [i \in 1..Len(s) |-> UpperChar(s[i])]
Lower(s) == [i \in 1..Len(s) |-> LowerChar(s[i])]

\* s[i..] matches [A-Za-z0-9]+-[A-Za-z0-9]+ up to the end of s
SuffixMatchesAt(s, i) ==
    \E h \in (i + 1)..(Len(s) - 1) :
        /\ s[h] = "-"
        /\ \A k \in i..(h - 1) : IsAlnum(s[k])
        /\ \A k \in (h + 1)..Len(s) : IsAlnum(s[k])

\* re.search(r"([A-Za-z0-9]+-[A-Za-z0-9]+)$", origin_name): the leftmost start
HasSuffix(s) == \E i \in 1..Len(s) : SuffixMatchesAt(s, i)

MatchStart(s) ==
    CHOOSE i \in 1..Len(s) :
        SuffixMatchesAt(s, i) /\ \A j \in 1..(i - 1) : ~SuffixMatchesAt(s, j)

\* mutant: the match is the shortest one (one character before the hyphen)
derive_new_project_name_short(origin_name, new_suffix) ==
    LET last == CHOOSE i \in 1..Len(origin_name) :
                    SuffixMatchesAt(origin_name, i)
                        /\ \A j \in (i + 1)..Len(origin_name) : ~SuffixMatchesAt(origin_name, j)
    IN  SubSeq(origin_name, 1, last - 1) \o Upper(new_suffix)

\* mutant: only the segment after the last hyphen is replaced
derive_new_project_name_tail(origin_name, new_suffix) ==
    LET h == CHOOSE i \in 1..Len(origin_name) :
                    origin_name[i] = "-"
                        /\ \A j \in (i + 1)..Len(origin_name) : origin_name[j] # "-"
    IN  SubSeq(origin_name, 1, h) \o Upper(new_suffix)

\* derive_new_project_name, defined when HasSuffix(origin_name)
derive_new_project_name(origin_name, new_suffix) ==
    SubSeq(origin_name, 1, MatchStart(origin_name) - 1) \o Upper(new_suffix)

-----------------------------------------------------------------------------
(* Configuration *)

\* a YAML scalar: null, or a value with its text, a sequence of characters
Null == [null |-> TRUE, s |-> <<>>]
Str(t) == [null |-> FALSE, s |-> t]

\* mutant: a variable that is not set is not noticed
require_env_var_unset(key, env) == TRUE

\* require_env_var: TRUE when the variable is set (and not empty)
require_env_var(key, env) == key \in env

\* the variable main reads for a platform
TokenKey(platform) == IF platform = "gitlab" THEN "GITLAB_TOKEN" ELSE "GITHUB_TOKEN"

\* ensure_agency_fields: TRUE when no required field is missing or empty
ensure_agency_fields(agency_cfg) ==
    \A k \in {"short_name_template", "category_id", "agency_ipa_code"} :
        k \in DOMAIN agency_cfg /\ agency_cfg[k] # <<>>

\* ensure_users: [ok |-> FALSE], or [ok |-> TRUE, users |-> the names user1..userN]
ensure_users(users_cfg) ==
    IF ~users_cfg.isdict THEN [ok |-> FALSE, users |-> <<>>]
    ELSE IF users_cfg.number <= 0 THEN [ok |-> FALSE, users |-> <<>>]
    ELSE IF \E idx \in 1..users_cfg.number :
                idx \notin DOMAIN users_cfg.names \/ users_cfg.names[idx] = ""
    THEN [ok |-> FALSE, users |-> <<>>]
    ELSE [ok |-> TRUE,
          users |-> [idx \in 1..users_cfg.number |-> users_cfg.names[idx]]]

-----------------------------------------------------------------------------
(* Generation utility *)

ensure_settings_path(file_name) == <<"settings">> \o file_name

UserSettingsPath(username) == ensure_settings_path(<<username, "_etlSetting.yml">>)
RegisterCsvPath == ensure_settings_path(<<"privacy_default_template.csv">>)
AooCsvPath == ensure_settings_path(<<"AOO.csv">>)
UoCsvPath == ensure_settings_path(<<"UO.csv">>)

\* mutant: short_name takes the upper-cased template, as the project name does
UserSettingsContentUpper(agency_cfg) ==
    << <<"agency_ipa_code", agency_cfg["agency_ipa_code"]>>,
       <<"db_host_name", <<>> >>,
       <<"db_name", <<>> >>,
       <<"db_port_number", <<>> >>,
       <<"db_pwd", <<>> >>,
       <<"db_username", <<>> >>,
       <<"delay_write_and_read_table_procedure", <<"1", "5", "0">> >>,
       <<"professional_category_id", agency_cfg["category_id"]>>,
       <<"root_path_global_common_transformation", <<>> >>,
       <<"root_path_unioncol", <<>> >>,
       <<"root_prj_folder", <<>> >>,
       <<"short_name", Upper(agency_cfg["short_name_template"])>> >>

\* content_lines of a user settings file: one <<key, value>> per line, the value
\* a sequence of characters
UserSettingsContent(agency_cfg) ==
    << <<"agency_ipa_code", agency_cfg["agency_ipa_code"]>>,
       <<"db_host_name", <<>> >>,
       <<"db_name", <<>> >>,
       <<"db_port_number", <<>> >>,
       <<"db_pwd", <<>> >>,
       <<"db_username", <<>> >>,
       <<"delay_write_and_read_table_procedure", <<"1", "5", "0">> >>,
       <<"professional_category_id", agency_cfg["category_id"]>>,
       <<"root_path_global_common_transformation", <<>> >>,
       <<"root_path_unioncol", <<>> >>,
       <<"root_prj_folder", <<>> >>,
       <<"short_name", agency_cfg["short_name_template"]>> >>

\* mutant: the last column is left out
RegisterHeadersShort ==
    << "profileName", "picture", "fiscalCode", "vatNumber", "birthDate", "gender",
       "studioAddress", "studioEmail", "studioPec", "studioPecReginde",
       "studioPhone", "studioFax",
       "residenceAddress", "residenceEmail", "residencePec", "residencePecReginde",
       "residencePhone", "residenceFax",
       "professionalDomicileAddress", "professionalDomicileEmail",
       "professionalDomicilePec", "professionalDomicilePecReginde",
       "professionalDomicilePhone", "professionalDomicileFax",
       "taxDomicileAddress", "taxDomicileEmail", "taxDomicilePec",
       "taxDomicilePecReginde", "taxDomicilePhone", "taxDomicileFax",
       "mailingAddressAddress", "mailingAddressEmail", "mailingAddressPec",
       "mailingAddressPecReginde", "mailingAddressPhone", "mailingAddressFax",
       "studioMobilePhone", "residenceMobilePhone",
       "professionalDomicileMobilePhone", "taxDomicileMobilePhone" >>

RegisterHeaders ==
    << "profileName", "picture", "fiscalCode", "vatNumber", "birthDate", "gender",
       "studioAddress", "studioEmail", "studioPec", "studioPecReginde",
       "studioPhone", "studioFax",
       "residenceAddress", "residenceEmail", "residencePec", "residencePecReginde",
       "residencePhone", "residenceFax",
       "professionalDomicileAddress", "professionalDomicileEmail",
       "professionalDomicilePec", "professionalDomicilePecReginde",
       "professionalDomicilePhone", "professionalDomicileFax",
       "taxDomicileAddress", "taxDomicileEmail", "taxDomicilePec",
       "taxDomicilePecReginde", "taxDomicilePhone", "taxDomicileFax",
       "mailingAddressAddress", "mailingAddressEmail", "mailingAddressPec",
       "mailingAddressPecReginde", "mailingAddressPhone", "mailingAddressFax",
       "studioMobilePhone", "residenceMobilePhone",
       "professionalDomicileMobilePhone", "taxDomicileMobilePhone",
       "mailingAddressMobilePhone" >>

\* a text is a sequence of characters; a column name, which holds none of the
\* characters below, stands in it as one element
DQ == "\""
SEMI == ";"
NL == "\n"

RECURSIVE Join(_, _)
\* sep.join(parts)
Join(parts, sep) ==
    IF parts = <<>> THEN <<>>
    ELSE IF Len(parts) = 1 THEN parts[1]
    ELSE parts[1] \o <<sep>> \o Join(Tail(parts), sep)

\* ";".join([f'"{v}"' for v in row])
CsvLine(row) == Join([i \in 1..Len(row) |-> <<DQ>> \o row[i] \o <<DQ>>], SEMI)

\* "\n".join(csv_lines) + "\n"
CsvText(csv_lines) == Join(csv_lines, NL) \o <<NL>>

\* the headers as values to quote
HeaderRow(headers) == [i \in 1..Len(headers) |-> <<headers[i]>>]

\* template of build_register_csv_content: the mapping under
\* default_privacy_template, {} when the key or the section is absent; a key set
\* to null gives None
RegisterTemplate(register_cfg) ==
    IF register_cfg.isdict /\ register_cfg.template_kind = "mapping"
    THEN register_cfg.default_privacy_template
    ELSE <<>>

\* template.get(key) does not raise: the template is not None
RegisterBuildable(register_cfg) ==
    ~(register_cfg.isdict /\ register_cfg.template_kind = "null")

\* val(key) of create_register_csv / build_register_csv_content
RegisterVal(template, key) ==
    IF key \in DOMAIN template /\ ~template[key].null THEN template[key].s ELSE <<>>

\* row of build_register_csv_content
RegisterRow(register_cfg) ==
    [i \in 1..Len(RegisterHeaders) |->
        RegisterVal(RegisterTemplate(register_cfg), RegisterHeaders[i])]

\* the text of the register CSV, defined when RegisterBuildable(register_cfg)
build_register_csv_content(register_cfg) ==
    CsvText(<< CsvLine(HeaderRow(RegisterHeaders)), CsvLine(RegisterRow(register_cfg)) >>)

AooHeaders ==
    << "accountable_email", "accountable_first_name", "accountable_last_name",
       "accountable_phone_number", "alboclassic_aoo_id", "date_creation", "name",
       "unicode" >>

UoHeaders ==
    << "accountable_first_name", "accountable_second_name", "alboclassic_uo_id",
       "albosmart_uo_id", "date_creation", "isDefault", "name", "unicode" >>

\* entry.get(f"aoo{i}_<h>", "") followed by the None -> "" coercion;
\* the keys of an entry are modelled as <<index, field>>
EntryVal(entry, i, h) ==
    IF <<i, h>> \in DOMAIN entry /\ ~entry[<<i, h>>].null THEN entry[<<i, h>>].s ELSE <<>>

\* num of extract_aoo_rows / extract_uo_rows: the number of the section, 0 when
\* the section is absent
SectionNum(section) == IF section.absent THEN 0 ELSE section.number

\* mutant: the loop stops one entry early
SectionRowsShort(section, headers) ==
    [i \in 1..(SectionNum(section) - 1) |->
        LET entry == IF i \in DOMAIN section.entries THEN section.entries[i] ELSE <<>>
        IN  [c \in 1..Len(headers) |-> EntryVal(entry, i, headers[c])]]

\* rows of extract_aoo_rows / extract_uo_rows for one section
SectionRows(section, headers) ==
    [i \in 1..SectionNum(section) |->
        LET entry == IF i \in DOMAIN section.entries THEN section.entries[i] ELSE <<>>
        IN  [c \in 1..Len(headers) |-> EntryVal(entry, i, headers[c])]]

extract_aoo_rows(protocol_cfg) == SectionRows(protocol_cfg.AOO, AooHeaders)
extract_uo_rows(protocol_cfg) == SectionRows(protocol_cfg.UO, UoHeaders)

\* text of the header line followed by the rows; <<>> (the empty content) when
\* there is no row
CsvContent(headers, rows) ==
    IF rows = <<>> THEN <<>>
    ELSE CsvText(<<CsvLine(HeaderRow(headers))>> \o [k \in 1..Len(rows) |-> CsvLine(rows[k])])

build_protocol_csv_contents(protocol_cfg) ==
    [aoo |-> CsvContent(AooHeaders, extract_aoo_rows(protocol_cfg)),
     uo  |-> CsvContent(UoHeaders, extract_uo_rows(protocol_cfg))]

\* one upsert call: path, content, commit message
Upsert(path, content, message) == [path |-> path, content |-> content, message |-> message]

\* the upsert calls of the loop over the users
UserUpserts(users, agency_cfg) ==
    [k \in 1..Len(users) |->
        Upsert(UserSettingsPath(users[k]), UserSettingsContent(agency_cfg),
               "Aggiungi configurazioni utente")]

RegisterUpserts(register_cfg) ==
    << Upsert(RegisterCsvPath, build_register_csv_content(register_cfg),
              "Aggiungi template privacy") >>

\* mutant: UO.csv is written before AOO.csv
ProtocolUpsertsSwapped(protocol_cfg) ==
    LET c == build_protocol_csv_contents(protocol_cfg)
    IN  (IF c.uo # <<>> THEN <<Upsert(UoCsvPath, c.uo, "Aggiungi CSV UO")>> ELSE <<>>)
        \o (IF c.aoo # <<>> THEN <<Upsert(AooCsvPath, c.aoo, "Aggiungi CSV AOO")>> ELSE <<>>)

\* the upsert calls of create_protocol_csvs / of the protocol branch on GitHub
ProtocolUpserts(protocol_cfg) ==
    LET c == build_protocol_csv_contents(protocol_cfg)
    IN  (IF c.aoo # <<>> THEN <<Upsert(AooCsvPath, c.aoo, "Aggiungi CSV AOO")>> ELSE <<>>)
        \o (IF c.uo # <<>> THEN <<Upsert(UoCsvPath, c.uo, "Aggiungi CSV UO")>> ELSE <<>>)

\* the CSV upsert calls of the selected submode
CsvUpserts(c) ==
    IF c.submode = "register" THEN RegisterUpserts(c.register_config)
    ELSE ProtocolUpserts(c.protocol_config)

-----------------------------------------------------------------------------
(* Inputs: the configurations and the remote states a run starts from *)

UserNames == <<"alice", "bob", "carol", "dave">>

\* users section with user1..userN named differently, or all named alice
UsersCfg(number, same) ==
    [isdict |-> TRUE, number |-> number,
     names |-> [idx \in 1..number |-> IF same THEN UserNames[1] ELSE UserNames[idx]]]

UsersCfgs ==
    {UsersCfg(number, FALSE) : number \in 0..MaxUsers}
        \cup {UsersCfg(MaxUsers, TRUE)}
        \cup {[isdict |-> TRUE, number |-> MaxUsers, names |-> <<UserNames[1]>>]}

\* entry AOOi / UOi with its name and unicode set and its date_creation null
SectionEntry(i) ==
    (<<i, "name">> :> Str(<<"n">>)) @@ (<<i, "unicode">> :> Str(<<"u">>))
        @@ (<<i, "date_creation">> :> Null)

SectionCfg(number) ==
    [absent |-> FALSE, number |-> number,
     entries |-> [i \in 1..number |-> SectionEntry(i)]]

ProtocolCfgs ==
    {[AOO |-> SectionCfg(a), UO |-> SectionCfg(u)] : a \in 0..MaxEntries, u \in 0..MaxEntries}

RegisterCfg ==
    [isdict |-> TRUE, template_kind |-> "mapping",
     default_privacy_template |-> [profileName |-> Str(<<"s">>), picture |-> Null]]

AgencyCfg ==
    [short_name_template |-> <<"z", "-", "9">>, category_id |-> <<"4">>,
     agency_ipa_code |-> <<"c">>]

OriginName == <<"p", "-", "a", "-", "b">>

\* another project of the group / of the owner
OtherName == <<"p", "-", "a", "-", "z">>

\* a configuration whose local validation passes
Cfg(platform, submode, users, protocol) ==
    [platform |-> platform, submode |-> submode, sections |-> TRUE,
     env |-> {"GITLAB_TOKEN", "GITHUB_TOKEN"},
     agency_config |-> AgencyCfg, origin_name |-> OriginName, github_owner |-> TRUE,
     users |-> users, register_config |-> RegisterCfg, protocol_config |-> protocol]

Platforms == {"gitlab", "github"}

\* every users section with every protocol section under 'protocol', and with one
\* protocol section under 'register'
ValidCfgs ==
    {Cfg(p, "protocol", u, pr) : p \in Platforms, u \in UsersCfgs, pr \in ProtocolCfgs}
        \cup {Cfg(p, "register", u, [AOO |-> SectionCfg(1), UO |-> SectionCfg(0)]) :
                    p \in Platforms, u \in UsersCfgs}

\* the first configuration of a platform
BaseCfg(p) ==
    Cfg(p, "register", UsersCfg(1, FALSE), [AOO |-> SectionCfg(0), UO |-> SectionCfg(0)])

\* the first configuration with one defect
DefectCfgs ==
    UNION {{[BaseCfg(p) EXCEPT !.sections = FALSE],
            [BaseCfg(p) EXCEPT !.env = {}],
            [BaseCfg(p) EXCEPT !.env = {"GITLAB_TOKEN", "GITHUB_TOKEN"} \ {TokenKey(p)}],
            [BaseCfg(p) EXCEPT !.submode = "other"],
            [BaseCfg(p) EXCEPT !.agency_config.short_name_template = <<>>],
            [BaseCfg(p) EXCEPT !.agency_config.category_id = <<>>],
            [BaseCfg(p) EXCEPT !.agency_config =
                [short_name_template |-> <<"z", "-", "9">>, category_id |-> <<"4">>]],
            [BaseCfg(p) EXCEPT !.github_owner = FALSE],
            [BaseCfg(p) EXCEPT !.origin_name = <<"p", "a", "b">>],
            [BaseCfg(p) EXCEPT !.register_config.template_kind = "null"]} : p \in Platforms}

\* the first configuration with the token of the invoked platform alone, and with
\* no register_config section
OtherCfgs ==
    UNION {{[BaseCfg(p) EXCEPT !.env = {TokenKey(p)}],
            [BaseCfg(p) EXCEPT !.register_config.isdict = FALSE]} : p \in Platforms}

Cfgs == ValidCfgs \cup DefectCfgs \cup OtherCfgs

NoFiles == <<>>
TemplateContent == << <<"template">> >>

\* the origin project holds no settings file, or already one for the first user
\* and one for a user who is not configured
Templates ==
    {NoFiles,
     (UserSettingsPath(UserNames[1]) :> TemplateContent)
        @@ (UserSettingsPath(UserNames[4]) :> TemplateContent)}

\* the projects in scope when the first run starts: the origin under its
\* configured name and, for the one-user configurations, also no origin or the
\* origin under a name that differs in case
RemoteInits(c) ==
    {{c.origin_name, OtherName}}
        \cup (IF c.users = UsersCfg(1, FALSE)
              THEN {{OtherName}, {Upper(c.origin_name), OtherName}} ELSE {})

-----------------------------------------------------------------------------
(* Remote requests *)

NoId == <<>>

\* identity of a stored file version (GitHub: the blob sha; GitLab: the file
\* object read at this version)
Sha(content) == <<"sha", content>>

\* a request of the run: operation, argument, answer, identity carried (writes and
\* reads of files), ordinal of the upsert call it belongs to (0: none)
Req(op, arg, res, id, n) == [op |-> op, arg |-> arg, res |-> res, id |-> id, n |-> n]

Fail(reason) == pc' = "failed" /\ outcome' = reason

\* result of the read step of an upsert: the file read (its identity and content),
\* or none
NotRead == [found |-> FALSE, id |-> NoId, content |-> <<>>]
Read(content) == [found |-> TRUE, id |-> Sha(content), content |-> content]

-----------------------------------------------------------------------------
(* Initial states *)

RunStart ==
    /\ pc = "start"
    /\ outcome = "running"
    /\ log = <<>>
    /\ now = 0
    /\ deadline = 0
    /\ origin = <<>>
    /\ newName = <<>>
    /\ todo = <<>>
    /\ stage = "none"
    /\ got = NotRead
    /\ ncall = 0
    /\ done = <<>>

Init ==
    /\ cfg \in Cfgs
    /\ projects \in RemoteInits(cfg)
    /\ files = NoFiles
    /\ RunStart
    /\ runs = 1
    /\ prev = [outcome |-> "none", files |-> NoFiles]

-----------------------------------------------------------------------------
(* main and the prologue of the mode handlers, up to the first remote request *)

Main ==
    /\ pc = "start"
    /\ IF ~cfg.sections THEN Fail("config")
       ELSE IF ~require_env_var(TokenKey(cfg.platform), cfg.env) THEN Fail("config")
       ELSE IF cfg.submode \notin {"register", "protocol"} THEN Fail("config")
       ELSE IF ~ensure_agency_fields(cfg.agency_config) THEN Fail("config")
       ELSE IF cfg.platform = "gitlab" THEN pc' = "auth" /\ outcome' = outcome
       ELSE IF ~cfg.github_owner THEN Fail("config")
       ELSE pc' = "resolve" /\ outcome' = outcome
    /\ UNCHANGED <<cfg, projects, files, log, now, deadline, origin, newName, todo,
                   stage, got, ncall, done, runs, prev>>

\* init_gitlab_client: gl.auth()
GlAuth ==
    /\ pc = "auth"
    /\ \E res \in {"ok", "error"} :
        /\ log' = Append(log, Req("auth", <<>>, res, NoId, 0))
        /\ IF res = "ok" THEN pc' = "resolve" /\ outcome' = outcome
           ELSE Fail("auth")
    /\ UNCHANGED <<cfg, projects, files, now, deadline, origin, newName, todo, stage,
                   got, ncall, done, runs, prev>>

\* mutant: the names are compared as they are
find_origin_project_exact(projs, origin_name) ==
    {p \in projs : p = origin_name}

\* the projects whose name is origin_name ignoring case
find_origin_project(projs, origin_name) ==
    LET key == Lower(origin_name)
    IN  {p \in projs : Lower(p) = key}

\* mutant: a name without the suffix is replaced as a whole
DeriveUnchecked(origin_name) ==
    /\ origin' = origin_name
    /\ newName' = IF HasSuffix(origin_name)
                  THEN derive_new_project_name(origin_name,
                            cfg.agency_config.short_name_template)
                  ELSE Upper(cfg.agency_config.short_name_template)
    /\ pc' = "create"
    /\ outcome' = outcome

\* derive_new_project_name on the resolved origin, then on to the creation
Derive(origin_name) ==
    /\ origin' = origin_name
    /\ IF HasSuffix(origin_name)
       THEN /\ newName' = derive_new_project_name(origin_name,
                               cfg.agency_config.short_name_template)
            /\ pc' = "create"
            /\ outcome' = outcome
       ELSE /\ Fail("name_pattern")
            /\ newName' = newName

\* GitLab: list the projects of the group, pick the origin, derive the new name
GlResolve ==
    /\ pc = "resolve"
    /\ cfg.platform = "gitlab"
    /\ \E res \in {"ok", "error"} :
        /\ log' = Append(log, Req("list", <<>>, res, NoId, 0))
        /\ IF res = "error" THEN Fail("list") /\ UNCHANGED <<origin, newName>>
           ELSE LET chosen == find_origin_project(projects, cfg.origin_name)
                IN  IF chosen = {}
                    THEN Fail("origin_not_found") /\ UNCHANGED <<origin, newName>>
                    ELSE \E p \in chosen : Derive(p)
    /\ UNCHANGED <<cfg, projects, files, now, deadline, todo, stage, got,
                   ncall, done, runs, prev>>

\* GitHub: github_repo_exists on the origin name, derive the new name
GhResolve ==
    /\ pc = "resolve"
    /\ cfg.platform = "github"
    /\ LET found == find_origin_project(projects, cfg.origin_name)
       IN  \E res \in {IF found = {} THEN "absent" ELSE "found", "error"} :
            /\ log' = Append(log, Req("repo_get", cfg.origin_name, res, NoId, 0))
            /\ IF res = "error" THEN Fail("origin_read") /\ UNCHANGED <<origin, newName>>
               ELSE IF res = "absent"
               THEN Fail("origin_not_found") /\ UNCHANGED <<origin, newName>>
               ELSE \E p \in found : Derive(p)
    /\ UNCHANGED <<cfg, projects, files, now, deadline, todo, stage, got,
                   ncall, done, runs, prev>>

\* the platform accepts a new project only under a name not yet taken
NameFree(name) == \A p \in projects : Lower(p) # Lower(name)

\* mutant: a project that already exists under the new name is reused
GlCreateReuse ==
    /\ pc = "create"
    /\ cfg.platform = "gitlab"
    /\ \E res \in {"ok", "error"} :
        /\ log' = Append(log, Req("create_project", newName, res, NoId, 0))
        /\ IF res = "ok"
           THEN /\ projects' = projects \cup {newName}
                /\ files' = IF NameFree(newName) THEN NoFiles ELSE files
                /\ deadline' = now + timeout_sec
                /\ pc' = "poll"
                /\ outcome' = outcome
           ELSE /\ Fail("create")
                /\ UNCHANGED <<projects, files, deadline>>
    /\ UNCHANGED <<cfg, now, origin, newName, todo, stage, got, ncall, done, runs, prev>>

\* GitLab: projects.create with import_url and default_branch, then the wait loop
\* is entered (deadline = time.time() + timeout_sec)
GlCreate ==
    /\ pc = "create"
    /\ cfg.platform = "gitlab"
    /\ \E res \in {IF NameFree(newName) THEN "ok" ELSE "conflict", "error"} :
        /\ log' = Append(log, Req("create_project", newName, res, NoId, 0))
        /\ IF res = "ok"
           THEN /\ projects' = projects \cup {newName}
                /\ files' = NoFiles
                /\ deadline' = now + timeout_sec
                /\ pc' = "poll"
                /\ outcome' = outcome
           ELSE /\ Fail("create")
                /\ UNCHANGED <<projects, files, deadline>>
    /\ UNCHANGED <<cfg, now, origin, newName, todo, stage, got, ncall, done, runs, prev>>

\* GitHub: create_github_repo (an empty repository)
GhCreate ==
    /\ pc = "create"
    /\ cfg.platform = "github"
    /\ \E res \in {IF NameFree(newName) THEN "ok" ELSE "conflict", "error"} :
        /\ log' = Append(log, Req("create_project", newName, res, NoId, 0))
        /\ IF res = "ok"
           THEN /\ projects' = projects \cup {newName}
                /\ files' = NoFiles
                /\ pc' = "import"
                /\ outcome' = outcome
           ELSE /\ Fail("create")
                /\ UNCHANGED <<projects, files>>
    /\ UNCHANGED <<cfg, now, deadline, origin, newName, todo, stage, got, ncall, done,
                   runs, prev>>

\* GitHub: start_github_import, then the wait loop is entered
GhImport ==
    /\ pc = "import"
    /\ \E res \in {"ok", "error"} :
        /\ log' = Append(log, Req("import", newName, res, NoId, 0))
        /\ IF res = "ok"
           THEN /\ deadline' = now + timeout_sec
                /\ pc' = "poll"
                /\ outcome' = outcome
           ELSE /\ Fail("create")
                /\ deadline' = deadline
    /\ UNCHANGED <<cfg, projects, files, now, origin, newName, todo, stage, got, ncall, done,
                   runs, prev>>

-----------------------------------------------------------------------------
(* The wait loops *)

\* answers of a poll of the import: the status field ("absent": no such field),
\* or a failed request
GlStatuses == {"absent", "finished", "failed", "started"}
GhStatuses == {"absent", "imported", "complete", "error", "importing"}

NPolls(l) == Cardinality({i \in DOMAIN l : l[i].op = "poll"})

\* the environment: an import still running after MaxBusyPolls polls does not
\* finish any more (it may fail, or stay running)
Answers(statuses, running) ==
    (IF NPolls(log) <= MaxBusyPolls THEN statuses ELSE statuses \ running)
        \cup {"request_error"}

\* mutant: the deadline is looked at before the status
wait_for_gitlab_import_deadline_first(status, t, dl) ==
    IF t > dl THEN "import_timeout"
    ELSE IF status \in {"absent", "finished"} THEN "return"
    ELSE IF status = "failed" THEN "import_failed"
    ELSE "sleep"

\* mutant: a running import is taken for a finished one
wait_for_gitlab_import_eager(status, t, dl) ==
    IF status \in {"absent", "finished", "started"} THEN "return"
    ELSE IF status = "failed" THEN "import_failed"
    ELSE IF t > dl THEN "import_timeout"
    ELSE "sleep"

\* mutant: the failed status is not looked at
wait_for_gitlab_import_nofail(status, t, dl) ==
    IF status \in {"absent", "finished"} THEN "return"
    ELSE IF t > dl THEN "import_timeout"
    ELSE "sleep"

\* mutant: the status "complete" is not known as a terminal one
wait_for_github_import_strict(status, t, dl) ==
    IF status = "request_error" THEN "import_read"
    ELSE IF status \in {"imported", "absent"} THEN "return"
    ELSE IF status = "error" THEN "import_failed"
    ELSE IF t > dl THEN "import_timeout"
    ELSE "sleep"

\* mutant: the timeout is reported as the platform's failure
wait_for_github_import_conflated(status, t, dl) ==
    IF status = "request_error" THEN "import_read"
    ELSE IF status \in {"imported", "complete", "absent"} THEN "return"
    ELSE IF status = "error" THEN "import_failed"
    ELSE IF t > dl THEN "import_failed"
    ELSE "sleep"

\* one iteration of wait_for_gitlab_import on the polled status, the clock read
\* after the poll and the deadline: "return", "sleep", or the reason of the exit
wait_for_gitlab_import(status, t, dl) ==
    IF status \in {"absent", "finished"} THEN "return"
    ELSE IF status = "failed" THEN "import_failed"
    ELSE IF t > dl THEN "import_timeout"
    ELSE "sleep"

\* one iteration of wait_for_github_import
wait_for_github_import(status, t, dl) ==
    IF status = "request_error" THEN "import_read"
    ELSE IF status \in {"imported", "complete", "absent"} THEN "return"
    ELSE IF status = "error" THEN "import_failed"
    ELSE IF t > dl THEN "import_timeout"
    ELSE "sleep"

\* the environment: when the wait loop returns, the destination holds the files
\* the import copied from the origin project
Imported == \E t \in Templates : files' = t

\* GitLab: projects.get raising is not caught: the run dies with the exception
GlPoll ==
    /\ pc = "poll"
    /\ cfg.platform = "gitlab"
    /\ \E lat \in {0, SlowPoll} :
       \E st \in Answers(GlStatuses, {"absent", "finished"}) :
        /\ now' = now + lat
        /\ log' = Append(log, Req("poll", <<>>, st, NoId, 0))
        /\ LET d == IF st = "request_error" THEN "crash"
                    ELSE wait_for_gitlab_import(st, now', deadline)
           IN  IF d = "return" THEN pc' = "gl_users" /\ outcome' = outcome /\ Imported
               ELSE IF d = "sleep" THEN pc' = "sleep" /\ UNCHANGED <<outcome, files>>
               ELSE Fail(d) /\ files' = files
    /\ UNCHANGED <<cfg, projects, deadline, origin, newName, todo, stage, got,
                   ncall, done, runs, prev>>

GhPoll ==
    /\ pc = "poll"
    /\ cfg.platform = "github"
    /\ \E lat \in {0, SlowPoll} :
       \E st \in Answers(GhStatuses, {"absent", "imported", "complete"}) :
        /\ now' = now + lat
        /\ log' = Append(log, Req("poll", <<>>, st, NoId, 0))
        /\ LET d == wait_for_github_import(st, now', deadline)
           IN  IF d = "return" THEN pc' = "set_default" /\ outcome' = outcome /\ Imported
               ELSE IF d = "sleep" THEN pc' = "sleep" /\ UNCHANGED <<outcome, files>>
               ELSE Fail(d) /\ files' = files
    /\ UNCHANGED <<cfg, projects, deadline, origin, newName, todo, stage, got,
                   ncall, done, runs, prev>>

\* time.sleep(poll_sec)
Sleep ==
    /\ pc = "sleep"
    /\ now' = now + poll_sec
    /\ log' = Append(log, Req("sleep", <<>>, "ok", NoId, 0))
    /\ pc' = "poll"
    /\ UNCHANGED <<cfg, projects, files, outcome, deadline, origin, newName, todo,
                   stage, got, ncall, done, runs, prev>>

-----------------------------------------------------------------------------
(* The artifact phase *)

\* GitLab: create_user_yaml_files up to its first upsert
GlUsers ==
    /\ pc = "gl_users"
    /\ LET u == ensure_users(cfg.users)
       IN  IF u.ok
           THEN /\ todo' = UserUpserts(u.users, cfg.agency_config)
                /\ stage' = "users"
                /\ pc' = "get"
                /\ outcome' = outcome
           ELSE /\ Fail("config")
                /\ UNCHANGED <<todo, stage>>
    /\ UNCHANGED <<cfg, projects, files, log, now, deadline, origin, newName, got,
                   ncall, done, runs, prev>>

\* GitHub, after the wait loop: ensure_users, then the register CSV (whatever the
\* submode: a null template raises) and the protocol CSVs are built, and the
\* upserts begin
PrepareContents ==
    LET u == ensure_users(cfg.users)
    IN  IF ~u.ok THEN Fail("config") /\ UNCHANGED <<todo, stage>>
        ELSE IF ~RegisterBuildable(cfg.register_config)
        THEN Fail("crash") /\ UNCHANGED <<todo, stage>>
        ELSE /\ todo' = UserUpserts(u.users, cfg.agency_config) \o CsvUpserts(cfg)
             /\ stage' = "all"
             /\ pc' = "get"
             /\ outcome' = outcome

\* mutant: the default branch is not set
GhSetDefaultSkipped ==
    /\ pc = "set_default"
    /\ log' = log
    /\ PrepareContents
    /\ UNCHANGED <<cfg, projects, files, now, deadline, origin, newName, got, ncall, done,
                   runs, prev>>

\* GitHub: set_github_default_branch, then the contents are prepared. An answer
\* with a status of 300 or more only warns; requests.patch raising (no answer) is
\* not caught
GhSetDefault ==
    /\ pc = "set_default"
    /\ \E res \in {"ok", "error", "exception"} :
        /\ log' = Append(log, Req("set_default", newName, res, NoId, 0))
        /\ IF res = "exception" THEN Fail("crash") /\ UNCHANGED <<todo, stage>>
           ELSE PrepareContents
    /\ UNCHANGED <<cfg, projects, files, now, deadline, origin, newName, got, ncall, done,
                   runs, prev>>

\* the caller after an upsert call has returned, rest being the calls left of the
\* stage: the next call, on GitLab the CSV stage after the users, or the end
AfterUpsert(rest) ==
    IF rest # <<>>
    THEN todo' = rest /\ stage' = stage /\ pc' = "get" /\ outcome' = outcome
    ELSE IF stage = "users"
    THEN IF cfg.submode = "register" /\ ~RegisterBuildable(cfg.register_config)
         THEN todo' = rest /\ stage' = "csv" /\ Fail("crash")
         ELSE /\ todo' = CsvUpserts(cfg)
              /\ stage' = "csv"
              /\ IF CsvUpserts(cfg) # <<>> THEN pc' = "get" /\ outcome' = outcome
                 ELSE pc' = "done" /\ outcome' = "ok"
    ELSE IF stage = "harness"
    THEN todo' = rest /\ stage' = stage /\ pc' = "idle" /\ outcome' = outcome
    ELSE todo' = rest /\ stage' = stage /\ pc' = "done" /\ outcome' = "ok"

-----------------------------------------------------------------------------
(* upsert_gitlab_file and upsert_github_file: the read step, then the write *)

\* the platform's answer to the read of a path, or a failure of the request
ReadAnswer(path) == IF path \in DOMAIN files THEN "found" ELSE "absent"

\* upsert_gitlab_file on the outcome of proj.files.get: the file is read
\* ("found"); GitlabGetError is caught, whether the answer was 404 ("absent") or
\* another HTTP error ("get_error"); any other exception is not caught
upsert_gitlab_file_read(res) ==
    IF res = "found" THEN "update"
    ELSE IF res \in {"absent", "get_error"} THEN "create"
    ELSE "crash"

\* upsert_github_file on the status of the GET: 200, 404, or anything else
upsert_github_file_read(res) ==
    IF res = "found" THEN "update"
    ELSE IF res = "absent" THEN "create"
    ELSE "upsert_read"

\* mutant: f.content is not set before f.save()
upsert_gitlab_file_write_stale(call, g) ==
    IF g.found THEN [op |-> "update", id |-> g.id, content |-> g.content]
    ELSE [op |-> "create", id |-> NoId, content |-> call.content]

\* the write request of upsert_gitlab_file: f.save() on the file read, with the
\* new content, or proj.files.create
upsert_gitlab_file_write(call, g) ==
    IF g.found THEN [op |-> "update", id |-> g.id, content |-> call.content]
    ELSE [op |-> "create", id |-> NoId, content |-> call.content]

\* the PUT of upsert_github_file: the payload carries the sha when one was read
upsert_github_file_write(call, g) ==
    IF g.id # NoId THEN [op |-> "update", id |-> g.id, content |-> call.content]
    ELSE [op |-> "create", id |-> NoId, content |-> call.content]

\* the platform accepts an update of the current version of an existing file and
\* the creation of a file that does not exist
Accepts(w, path) ==
    IF w.op = "update" THEN path \in DOMAIN files /\ w.id = Sha(files[path])
    ELSE path \notin DOMAIN files

\* the read step of an upsert call, branch mapping each possible answer to what
\* the platform's upsert_*_read does on it
UpsertGet(branch) ==
    LET call == Head(todo)
    IN  /\ ncall' = ncall + 1
        /\ \E res \in DOMAIN branch :
            /\ log' = Append(log, Req("get", call.path, res,
                                      IF res = "found" THEN Sha(files[call.path])
                                      ELSE NoId, ncall + 1))
            /\ IF branch[res] = "update"
               THEN got' = Read(files[call.path]) /\ pc' = "put" /\ outcome' = outcome
               ELSE IF branch[res] = "create"
               THEN got' = NotRead /\ pc' = "put" /\ outcome' = outcome
               ELSE got' = got /\ Fail(branch[res])
        /\ UNCHANGED <<cfg, projects, files, now, deadline, origin, newName, todo,
                       stage, done, runs, prev>>

\* the write step: the request w, accepted or refused by the platform (or failed
\* on the way); a refusal ends the run with reason
UpsertPut(w, reason) ==
    LET call == Head(todo)
    IN  /\ \E res \in {IF Accepts(w, call.path) THEN "ok" ELSE "conflict", "error"} :
            /\ log' = Append(log, Req(w.op, call.path, res, w.id, ncall))
            /\ IF res = "ok"
               THEN /\ files' = (call.path :> w.content) @@ files
                    /\ done' = Append(done, call)
                    /\ AfterUpsert(Tail(todo))
               ELSE /\ Fail(reason)
                    /\ UNCHANGED <<files, todo, stage, done>>
        /\ got' = NotRead
        /\ UNCHANGED <<cfg, projects, now, deadline, origin, newName, ncall, runs, prev>>

GlUpsertGet ==
    /\ pc = "get"
    /\ cfg.platform = "gitlab"
    /\ UpsertGet([res \in {ReadAnswer(Head(todo).path), "get_error", "exception"}
                    |-> upsert_gitlab_file_read(res)])

\* a refused or failed save/create raises an exception nobody catches
GlUpsertPut ==
    /\ pc = "put"
    /\ cfg.platform = "gitlab"
    /\ UpsertPut(upsert_gitlab_file_write(Head(todo), got), "crash")

GhUpsertGet ==
    /\ pc = "get"
    /\ cfg.platform = "github"
    /\ UpsertGet([res \in {ReadAnswer(Head(todo).path), "error"}
                    |-> upsert_github_file_read(res)])

\* mutant: the status of the PUT is not looked at
GhUpsertPutUnchecked ==
    /\ pc = "put"
    /\ cfg.platform = "github"
    /\ LET call == Head(todo)
           w == upsert_github_file_write(call, got)
       IN  \E res \in {IF Accepts(w, call.path) THEN "ok" ELSE "conflict", "error"} :
            /\ log' = Append(log, Req(w.op, call.path, res, w.id, ncall))
            /\ files' = IF res = "ok" THEN (call.path :> w.content) @@ files ELSE files
            /\ done' = IF res = "ok" THEN Append(done, call) ELSE done
            /\ AfterUpsert(Tail(todo))
    /\ got' = NotRead
    /\ UNCHANGED <<cfg, projects, now, deadline, origin, newName, ncall, runs, prev>>

GhUpsertPut ==
    /\ pc = "put"
    /\ cfg.platform = "github"
    /\ UpsertPut(upsert_github_file_write(Head(todo), got), "upsert_write")

-----------------------------------------------------------------------------
(* The command is invoked again, with the configuration unchanged, after a run
   that completed *)

Rerun ==
    /\ pc = "done"
    /\ runs < MaxRuns
    /\ runs' = runs + 1
    /\ prev' = [outcome |-> outcome, files |-> files]
    /\ pc' = "start"
    /\ outcome' = "running"
    /\ log' = <<>>
    /\ now' = 0
    /\ deadline' = 0
    /\ origin' = <<>>
    /\ newName' = <<>>
    /\ todo' = <<>>
    /\ stage' = "none"
    /\ got' = NotRead
    /\ ncall' = 0
    /\ done' = <<>>
    /\ UNCHANGED <<cfg, projects, files>>

Next ==
    \/ Main
    \/ GlAuth
    \/ GlResolve
    \/ GhResolve
    \/ GlCreate
    \/ GhCreate
    \/ GhImport
    \/ GlPoll
    \/ GhPoll
    \/ Sleep
    \/ GlUsers
    \/ GhSetDefault
    \/ GlUpsertGet
    \/ GlUpsertPut
    \/ GhUpsertGet
    \/ GhUpsertPut
    \/ Rerun

Spec == Init /\ [][Next]_vars

-----------------------------------------------------------------------------
(* Other specifications *)

\* a run of one-user configurations, the single thread of control never
\* stopping inside the wait loop: a poll or a sleep that is due is made
WaitStep ==
    \/ GlPoll
    \/ GhPoll
    \/ Sleep

InitLive ==
    /\ Init
    /\ cfg.users = UsersCfg(1, FALSE)
    /\ cfg.protocol_config.UO.number = 0

LiveSpec == InitLive /\ [][Next]_vars /\ WF_vars(WaitStep)

\* upsert_gitlab_file / upsert_github_file called directly, up to MaxCalls times,
\* on a branch that holds no file or a file of the template
UpsertPaths == {UserSettingsPath(UserNames[1]), AooCsvPath}
UpsertContents == {<< <<"c1">> >>, << <<"c2">> >>}

InitUpsert ==
    /\ cfg \in {Cfg(p, "register", UsersCfg(1, FALSE),
                    [AOO |-> SectionCfg(0), UO |-> SectionCfg(0)]) : p \in Platforms}
    /\ projects = {}
    /\ files \in Templates
    /\ pc = "idle"
    /\ outcome = "running"
    /\ log = <<>>
    /\ now = 0
    /\ deadline = 0
    /\ origin = <<>>
    /\ newName = <<>>
    /\ todo = <<>>
    /\ stage = "harness"
    /\ got = NotRead
    /\ ncall = 0
    /\ done = <<>>
    /\ runs = 1
    /\ prev = [outcome |-> "none", files |-> NoFiles]

UpsertCall ==
    /\ pc = "idle"
    /\ ncall < MaxCalls
    /\ \E path \in UpsertPaths, content \in UpsertContents :
        todo' = <<Upsert(path, content, "message")>>
    /\ pc' = "get"
    /\ UNCHANGED <<cfg, projects, files, outcome, log, now, deadline, origin, newName,
                   stage, got, ncall, done, runs, prev>>

NextUpsert ==
    \/ UpsertCall
    \/ GlUpsertGet
    \/ GlUpsertPut
    \/ GhUpsertGet
    \/ GhUpsertPut

SpecUpsert == InitUpsert /\ [][NextUpsert]_vars

\* the run from the lookup of the origin to the creation of the destination, for
\* every origin name of up to MaxNameLen characters and the name AGENCY-XY
NameChars == {"a", "B", "9", "-", "_"}
DeriveNames ==
    UNION {[1..n -> NameChars] : n \in 1..MaxNameLen}
        \cup {<<"A", "G", "E", "N", "C", "Y", "-", "X", "Y">>}
DeriveSuffixes == {<<"z", "-", "9">>, <<"Z", "Z", "-", "9", "9">>}

InitDerive ==
    /\ \E p \in Platforms, n \in DeriveNames, t \in DeriveSuffixes :
        cfg = [BaseCfg(p) EXCEPT !.origin_name = n,
                                 !.agency_config.short_name_template = t]
    /\ projects = {cfg.origin_name}
    /\ files = NoFiles
    /\ pc = "resolve"
    /\ outcome = "running"
    /\ log = <<>>
    /\ now = 0
    /\ deadline = 0
    /\ origin = <<>>
    /\ newName = <<>>
    /\ todo = <<>>
    /\ stage = "none"
    /\ got = NotRead
    /\ ncall = 0
    /\ done = <<>>
    /\ runs = 1
    /\ prev = [outcome |-> "none", files |-> NoFiles]

NextDerive ==
    \/ GlResolve
    \/ GhResolve
    \/ GlCreate
    \/ GhCreate

SpecDerive == InitDerive /\ [][NextDerive]_vars

\* build_register_csv_content and build_protocol_csv_contents called directly on
\* register and protocol sections of every shape
FieldValues == {Null, Str(<<>>), Str(<<"a">>), Str(<<"a", DQ, SEMI, DQ, "b">>)}
TemplateKeys == {"profileName", "mailingAddressMobilePhone"}

BuildTemplates == UNION {[K -> FieldValues] : K \in SUBSET TemplateKeys}

BuildRegisterCfgs ==
    {[isdict |-> TRUE, template_kind |-> "mapping", default_privacy_template |-> t] :
            t \in BuildTemplates}
        \cup {[isdict |-> d, template_kind |-> k, default_privacy_template |-> <<>>] :
                    d \in BOOLEAN, k \in {"absent", "null"}}

EntryDigits == <<"1", "2", "3">>

\* entry i of a section: its name, which tells the entries apart, and its unicode
BuildEntry(i, v) == (<<i, "name">> :> Str(<<"n", EntryDigits[i]>>)) @@ (<<i, "unicode">> :> v)

\* the entries 1..n of a section, each one missing or present
BuildEntries(n) ==
    UNION {[K -> FieldValues] : K \in SUBSET (1..n)}

BuildSections ==
    {[absent |-> TRUE, number |-> 0, entries |-> <<>>]}
        \cup {[absent |-> FALSE, number |-> n,
               entries |-> [i \in DOMAIN e |-> BuildEntry(i, e[i])]] :
                    n \in 0..MaxRows, e \in BuildEntries(MaxRows)}

BuildCfgs ==
    {[BaseCfg("github") EXCEPT !.register_config = r] : r \in BuildRegisterCfgs}
        \cup UNION {{[BaseCfg("github") EXCEPT !.submode = "protocol",
                            !.protocol_config = [AOO |-> a, UO |-> u]] :
                        u \in {a, [absent |-> TRUE, number |-> 0, entries |-> <<>>],
                               SectionCfg(1)}} :
                    a \in BuildSections}

InitBuild ==
    /\ cfg \in BuildCfgs
    /\ projects = {}
    /\ files = NoFiles
    /\ pc = "idle"
    /\ outcome = "running"
    /\ log = <<>>
    /\ now = 0
    /\ deadline = 0
    /\ origin = <<>>
    /\ newName = <<>>
    /\ todo = <<>>
    /\ stage = "build"
    /\ got = NotRead
    /\ ncall = 0
    /\ done = <<>>
    /\ runs = 1
    /\ prev = [outcome |-> "none", files |-> NoFiles]

\* the register CSV is built (a null template raises)
BuildRegister ==
    /\ pc = "idle"
    /\ cfg.submode = "register"
    /\ IF RegisterBuildable(cfg.register_config)
       THEN /\ todo' = RegisterUpserts(cfg.register_config)
            /\ pc' = "built"
            /\ outcome' = outcome
       ELSE Fail("crash") /\ todo' = todo
    /\ UNCHANGED <<cfg, projects, files, log, now, deadline, origin, newName, stage,
                   got, ncall, done, runs, prev>>

\* the protocol CSVs are built
BuildProtocol ==
    /\ pc = "idle"
    /\ cfg.submode = "protocol"
    /\ todo' = ProtocolUpserts(cfg.protocol_config)
    /\ pc' = "built"
    /\ UNCHANGED <<cfg, projects, files, outcome, log, now, deadline, origin, newName,
                   stage, got, ncall, done, runs, prev>>

NextBuild ==
    \/ BuildRegister
    \/ BuildProtocol

SpecBuild == InitBuild /\ [][NextBuild]_vars

\* the command invoked with the mode ls-remote-prj, on every configuration and
\* with the destination branch in any state an import leaves
LsMain ==
    /\ pc = "start"
    /\ IF ~cfg.sections THEN Fail("config")
       ELSE IF ~require_env_var(TokenKey(cfg.platform), cfg.env) THEN Fail("config")
       ELSE IF cfg.platform = "gitlab" THEN pc' = "ls_auth" /\ outcome' = outcome
       ELSE IF ~cfg.github_owner THEN Fail("config")
       ELSE pc' = "ls_list" /\ outcome' = outcome
    /\ UNCHANGED <<cfg, projects, files, log, now, deadline, origin, newName, todo,
                   stage, got, ncall, done, runs, prev>>

\* mode_ls_remote_prj: init_gitlab_client
LsGlAuth ==
    /\ pc = "ls_auth"
    /\ \E res \in {"ok", "error"} :
        /\ log' = Append(log, Req("auth", <<>>, res, NoId, 0))
        /\ IF res = "ok" THEN pc' = "ls_list" /\ outcome' = outcome
           ELSE Fail("auth")
    /\ UNCHANGED <<cfg, projects, files, now, deadline, origin, newName, todo, stage,
                   got, ncall, done, runs, prev>>

\* mode_ls_remote_prj: list_group_projects, then the names are printed
LsGlList ==
    /\ pc = "ls_list"
    /\ cfg.platform = "gitlab"
    /\ \E res \in {"ok", "error"} :
        /\ log' = Append(log, Req("list", <<>>, res, NoId, 0))
        /\ IF res = "ok" THEN pc' = "done" /\ outcome' = "ok"
           ELSE Fail("list")
    /\ UNCHANGED <<cfg, projects, files, now, deadline, origin, newName, todo, stage,
                   got, ncall, done, runs, prev>>

\* mutant: the listing registers a repository
LsGhListWrites ==
    /\ pc = "ls_list"
    /\ cfg.platform = "github"
    /\ \E res \in {"ok", "error", "exception"} :
        /\ log' = Append(log, Req("list", <<>>, res, NoId, 0))
        /\ projects' = IF res = "ok" THEN projects \cup {Upper(OtherName)} ELSE projects
        /\ IF res = "ok" THEN pc' = "done" /\ outcome' = "ok"
           ELSE IF res = "error" THEN Fail("list")
           ELSE Fail("crash")
    /\ UNCHANGED <<cfg, files, now, deadline, origin, newName, todo, stage,
                   got, ncall, done, runs, prev>>

\* mode_ls_remote_prj_github: the GET of the owner's repositories (a status of 300
\* or more exits; requests.get raising is not caught), then the names are printed
LsGhList ==
    /\ pc = "ls_list"
    /\ cfg.platform = "github"
    /\ \E res \in {"ok", "error", "exception"} :
        /\ log' = Append(log, Req("list", <<>>, res, NoId, 0))
        /\ projects' = projects
        /\ IF res = "ok" THEN pc' = "done" /\ outcome' = "ok"
           ELSE IF res = "error" THEN Fail("list")
           ELSE Fail("crash")
    /\ UNCHANGED <<cfg, files, now, deadline, origin, newName, todo, stage,
                   got, ncall, done, runs, prev>>

InitLs ==
    /\ cfg \in Cfgs
    /\ projects \in RemoteInits(cfg)
    /\ files \in Templates
    /\ RunStart
    /\ runs = 1
    /\ prev = [outcome |-> "none", files |-> NoFiles]

NextLs ==
    \/ LsMain
    \/ LsGlAuth
    \/ LsGlList
    \/ LsGhList

SpecLs == InitLs /\ [][NextLs]_vars

\* the artifact phase of the two create workflows run one after the other on the
\* same configuration and profile, each from the return of its wait loop: first
\* GitLab, then GitHub; prev keeps what the GitLab run did
PairRegisterCfgs ==
    {RegisterCfg,
     [RegisterCfg EXCEPT !.template_kind = "null"],
     [RegisterCfg EXCEPT !.isdict = FALSE]}

PairCfgs ==
    {[c EXCEPT !.register_config = r] :
        c \in {v \in ValidCfgs : v.platform = "gitlab"}, r \in PairRegisterCfgs}

\* no request of the run l was refused or failed
Undisturbed(l) == \A i \in DOMAIN l : l[i].res \in {"ok", "found", "absent"}

InitPair ==
    /\ cfg \in PairCfgs
    /\ origin = cfg.origin_name
    /\ newName = derive_new_project_name(origin, cfg.agency_config.short_name_template)
    /\ projects = {origin, newName}
    /\ files \in Templates
    /\ pc = "gl_users"
    /\ outcome = "running"
    /\ log = <<>>
    /\ now = 0
    /\ deadline = timeout_sec
    /\ todo = <<>>
    /\ stage = "none"
    /\ got = NotRead
    /\ ncall = 0
    /\ done = <<>>
    /\ runs = 1
    /\ prev = [outcome |-> "none", files |-> NoFiles, done |-> <<>>, clean |-> TRUE]

\* the GitLab run is over: the GitHub workflow on the same configuration, from the
\* return of wait_for_github_import
OtherPlatform ==
    /\ pc \in {"done", "failed"}
    /\ runs = 1
    /\ runs' = 2
    /\ prev' = [outcome |-> outcome, files |-> files, done |-> done,
                clean |-> Undisturbed(log)]
    /\ cfg' = [cfg EXCEPT !.platform = "github"]
    /\ Imported
    /\ pc' = "set_default"
    /\ outcome' = "running"
    /\ log' = <<>>
    /\ todo' = <<>>
    /\ stage' = "none"
    /\ got' = NotRead
    /\ ncall' = 0
    /\ done' = <<>>
    /\ UNCHANGED <<projects, now, deadline, origin, newName>>

NextPair ==
    \/ GlUsers
    \/ GlUpsertGet
    \/ GlUpsertPut
    \/ OtherPlatform
    \/ GhSetDefault
    \/ GhUpsertGet
    \/ GhUpsertPut

SpecPair == InitPair /\ [][NextPair]_vars

\* wait_for_gitlab_import / wait_for_github_import called directly on a project
\* under import, with the default timeout or with a timeout of 0
Timeouts == {0, timeout_sec}

InitWait ==
    /\ cfg \in {BaseCfg(p) : p \in Platforms}
    /\ origin = cfg.origin_name
    /\ newName = derive_new_project_name(origin, cfg.agency_config.short_name_template)
    /\ projects = {origin, newName}
    /\ files = NoFiles
    /\ pc = "idle"
    /\ outcome = "running"
    /\ log = <<>>
    /\ now = 0
    /\ deadline = 0
    /\ todo = <<>>
    /\ stage = "wait"
    /\ got = NotRead
    /\ ncall = 0
    /\ done = <<>>
    /\ runs = 1
    /\ prev = [outcome |-> "none", files |-> NoFiles]

\* the call: deadline = time.time() + timeout_sec, then the loop is entered
WaitCall ==
    /\ pc = "idle"
    /\ \E t \in Timeouts : deadline' = now + t
    /\ pc' = "poll"
    /\ UNCHANGED <<cfg, projects, files, outcome, log, now, origin, newName, todo,
                   stage, got, ncall, done, runs, prev>>

NextWait ==
    \/ WaitCall
    \/ GlPoll
    \/ GhPoll
    \/ Sleep

SpecWait == InitWait /\ [][NextWait]_vars

-----------------------------------------------------------------------------
(* Vocabulary of the properties *)

IsFileReq(e) == e.op \in {"get", "update", "create"}
IsFileWrite(e) == e.op \in {"update", "create"}

\* the statuses the platform documents as terminal success, failure, and running
SuccessStatuses == IF cfg.platform = "gitlab" THEN {"absent", "finished"}
                   ELSE {"absent", "imported", "complete"}
FailedStatus == IF cfg.platform = "gitlab" THEN "failed" ELSE "error"
BusyStatus == IF cfg.platform = "gitlab" THEN "started" ELSE "importing"

IsPoll(e) == e.op = "poll"
PollSeq == SelectSeq(log, IsPoll)
InWait == pc \in {"poll", "sleep"}
ImportOutcomes == {"import_failed", "import_timeout", "import_read"}

\* the wait loop has returned to the mode handler
WaitReturned ==
    /\ ~InWait
    /\ outcome \notin ImportOutcomes
    /\ outcome = "crash" => ~IsPoll(log[Len(log)])

-----------------------------------------------------------------------------
(* C1: in every create run the remote effects come in the order resolve origin,
   create destination, await import, upserts: a request on a file is issued only
   after a poll of the import answered terminal success (the last poll of the
   run), itself after the accepted creation of the destination; and the creation
   is requested only after the origin was looked up and found *)
C1_RemoteOrder ==
    \A i \in DOMAIN log :
        /\ IsFileReq(log[i]) =>
            \E j \in 1..(i - 1) :
                /\ IsPoll(log[j]) /\ log[j].res \in SuccessStatuses
                /\ \A k \in (j + 1)..i : ~IsPoll(log[k])
                /\ \E k \in 1..(j - 1) :
                    log[k].op = "create_project" /\ log[k].res = "ok"
        /\ log[i].op = "create_project" =>
            /\ \E j \in 1..(i - 1) :
                log[j].op \in {"list", "repo_get"} /\ log[j].res \in {"ok", "found"}
            /\ \E p \in projects : Lower(p) = Lower(cfg.origin_name)

C1_Witness ==
    /\ pc = "done" /\ runs = 1 /\ cfg.platform = "gitlab"
    /\ Len(done) >= 2
    /\ NPolls(log) >= 2

(* C2: the wait loop returns on the first poll that answers finished/complete or
   carries no status, and polls no more: such a poll is the only one of its kind
   and the last poll of the run, no sleep follows it, and the run has left the
   loop without an import failure; in particular when the polls answer running,
   running, finished the loop has returned after exactly 3 polls *)
C2_ReturnOnFirstSuccess ==
    /\ \A i \in DOMAIN log :
        (IsPoll(log[i]) /\ log[i].res \in SuccessStatuses) =>
            /\ \A j \in 1..(i - 1) : IsPoll(log[j]) => log[j].res \notin SuccessStatuses
            /\ \A j \in (i + 1)..Len(log) : log[j].op \notin {"poll", "sleep"}
            /\ WaitReturned
    /\ (/\ Len(PollSeq) >= 3
        /\ PollSeq[1].res = BusyStatus
        /\ PollSeq[2].res = BusyStatus
        /\ PollSeq[3].res \in SuccessStatuses \ {"absent"})
       => (Len(PollSeq) = 3 /\ WaitReturned)

C2_Witness ==
    /\ Len(PollSeq) = 3
    /\ PollSeq[1].res = "started" /\ PollSeq[2].res = "started"
    /\ PollSeq[3].res = "finished"
    /\ pc = "gl_users"

(* C3: a poll that answers the platform's failed/error status ends the run at
   once: it is the last entry of the run (no sleep, no poll, no default-branch
   request, no upsert after it) and the run has failed with the import failure *)
C3_FailedPollEndsRun ==
    \A i \in DOMAIN log :
        (IsPoll(log[i]) /\ log[i].res = FailedStatus) =>
            /\ i = Len(log)
            /\ pc = "failed"
            /\ outcome = "import_failed"

C3_Witness ==
    /\ outcome = "import_failed"
    /\ cfg.platform = "github"
    /\ NPolls(log) >= 2
    /\ now < deadline

(* C4: while every poll answers running, the wait loop ends with the timeout
   failure, which is not the platform-failure outcome; the timeout ends the run:
   the timed-out poll is the last entry, so neither a default-branch request nor an
   upsert is issued *)
AllBusy == \A i \in DOMAIN log : IsPoll(log[i]) => log[i].res = BusyStatus

C4_TimeoutEndsRun ==
    /\ InWait ~> (outcome = "import_timeout" \/ ~AllBusy)
    /\ [](outcome = "import_timeout" =>
            /\ pc = "failed"
            /\ AllBusy
            /\ IsPoll(log[Len(log)])
            /\ now > deadline
            /\ \A i \in DOMAIN log : log[i].op # "set_default" /\ ~IsFileReq(log[i]))

C4_Witness ==
    /\ outcome = "import_timeout"
    /\ NPolls(log) > 3

(* C5: upsert overwrites: after a returned upsert call, and as long as no later
   call for the same path has returned, the branch holds a file at the path and
   its content is the content of that call (the second content after two calls,
   the given content after a call on a path with no file) *)
C5_UpsertOverwrites ==
    \A i \in DOMAIN done :
        (\A j \in (i + 1)..Len(done) : done[j].path # done[i].path) =>
            /\ done[i].path \in DOMAIN files
            /\ files[done[i].path] = done[i].content

C5_Witness ==
    /\ Len(done) = 2
    /\ done[1].path = done[2].path
    /\ done[1].content # done[2].content
    /\ pc = "idle"

C5_WitnessCreate ==
    /\ Len(done) = 1
    /\ Len(log) = 2
    /\ log[1].res = "absent"
    /\ pc = "idle"

(* C6: every write of an upsert directly follows a read of the same path in the
   same call; after a read that found the file it is an update carrying the
   identity read; a create (no identity) follows only a read that reported the
   file absent *)
C6_GetThenBranch ==
    \A j \in DOMAIN log :
        IsFileWrite(log[j]) =>
            /\ j > 1
            /\ log[j - 1].op = "get"
            /\ log[j - 1].n = log[j].n
            /\ log[j - 1].arg = log[j].arg
            /\ log[j - 1].res = "found" => (log[j].op = "update" /\ log[j].id = log[j - 1].id)
            /\ log[j].op = "create" => (log[j - 1].res = "absent" /\ log[j].id = NoId)

(* C7, as stated: a re-run with unchanged configuration after a completed run
   meets no conflict *)
C7_RerunNoConflict ==
    runs > 1 => \A i \in DOMAIN log : log[i].res # "conflict"

(* C7, amended: a re-run with unchanged configuration after a completed run never
   gets past the creation of the destination: its creation request is refused (the
   name is taken), it issues no request on a file, it does not end in success, and
   the generated artifacts stay as the earlier run left them *)
C7_RerunStopsAtCreate ==
    runs > 1 =>
        /\ prev.outcome = "ok"
        /\ files = prev.files
        /\ outcome # "ok"
        /\ pc \in {"start", "auth", "resolve", "create", "failed"}
        /\ \A i \in DOMAIN log :
            /\ ~IsFileReq(log[i])
            /\ log[i].op = "create_project" => log[i].res \in {"conflict", "error"}

C7_Witness ==
    /\ runs = 2
    /\ pc = "failed"
    /\ outcome = "create"
    /\ log[Len(log)].res = "conflict"
    /\ DOMAIN files # {}

(* C8: a failed request of an upsert that ends the call is the last request of the
   run: no later upsert is issued, the run has failed, and the files written by the
   earlier calls are still there *)
C8_UpsertFailureAborts ==
    \A i \in DOMAIN log :
        (IsFileReq(log[i]) /\ log[i].res \in {"error", "conflict", "exception"}) =>
            /\ i = Len(log)
            /\ pc = "failed"
            /\ outcome \notin {"ok", "running"}
            /\ \A k \in DOMAIN done : done[k].path \in DOMAIN files

C8_Witness ==
    /\ pc = "failed"
    /\ Len(log) >= 1
    /\ IsFileReq(log[Len(log)])
    /\ Len(done) >= 1
    /\ Len(todo) >= 2

(* C9: a successful run has made its upserts in this order: the settings files of
   user1..userN, then with 'register' the privacy CSV alone, with 'protocol'
   AOO.csv if AOO has a row, then UO.csv if UO has a row *)
ExpectedPaths ==
    [k \in 1..cfg.users.number |-> <<"settings", cfg.users.names[k], "_etlSetting.yml">>]
        \o (IF cfg.submode = "register"
            THEN << <<"settings", "privacy_default_template.csv">> >>
            ELSE (IF cfg.protocol_config.AOO.number > 0
                  THEN << <<"settings", "AOO.csv">> >> ELSE <<>>)
                 \o (IF cfg.protocol_config.UO.number > 0
                     THEN << <<"settings", "UO.csv">> >> ELSE <<>>))

C9_UpsertOrder ==
    (pc = "done" /\ outcome = "ok") =>
        /\ [i \in DOMAIN done |-> done[i].path] = ExpectedPaths
        /\ [i \in 1..Len(SelectSeq(log, IsFileWrite)) |->
                SelectSeq(log, IsFileWrite)[i].arg] = ExpectedPaths

C9_Witness ==
    /\ pc = "done" /\ outcome = "ok"
    /\ cfg.submode = "protocol"
    /\ cfg.users.number >= 2
    /\ cfg.protocol_config.AOO.number >= 1
    /\ cfg.protocol_config.UO.number >= 1

(* C10, as stated: on both platforms a set-default-branch request comes after the
   import completed and before the first request on a file *)
SetDefaultBeforeFiles ==
    \A i \in DOMAIN log :
        IsFileReq(log[i]) =>
            \E j \in 1..(i - 1) :
                /\ log[j].op = "set_default"
                /\ \A k \in 1..j : ~IsFileReq(log[k])
                /\ \E k \in 1..(j - 1) : IsPoll(log[k]) /\ log[k].res \in SuccessStatuses

C10_SetDefaultBeforeUpserts == SetDefaultBeforeFiles

(* C10, amended: on GitHub a set-default-branch request comes after the import
   completed and before the first request on a file; on GitLab no such request is
   ever issued (the default branch is named in the creation request only) *)
C10_SetDefaultOnGitHub ==
    /\ cfg.platform = "github" => SetDefaultBeforeFiles
    /\ cfg.platform = "gitlab" => \A i \in DOMAIN log : log[i].op # "set_default"

C10_Witness ==
    /\ cfg.platform = "github"
    /\ pc = "done"
    /\ Len(done) >= 2

C10_WitnessGitLab ==
    /\ cfg.platform = "gitlab"
    /\ pc = "done"
    /\ Len(done) >= 2

(* C11: a set-default-branch request that fails does not end the run (with valid
   users and contents the run goes on to the upserts), and it is the only remote
   request whose failure does not end the run: every other failed request is the
   last request of a failed run *)
FailedAnswers == {"error", "conflict", "get_error", "exception", "request_error", "failed"}

C11_OnlySetDefaultFailureNonFatal ==
    \A i \in DOMAIN log :
        log[i].res \in FailedAnswers =>
            IF log[i].op = "set_default"
            THEN (ensure_users(cfg.users).ok /\ RegisterBuildable(cfg.register_config))
                    => ~(pc = "failed" /\ i = Len(log))
            ELSE pc = "failed" /\ i = Len(log)

(* C12: a run whose local validation fails issues no remote request: with a missing
   required section, a missing token of the invoked platform, an empty or missing
   agency field or an invalid profile argument, the run ends with nothing requested;
   and a run that ends before its first request has one of these defects (or, on
   GitHub, no owner): the token of the other platform is never what is missing *)
LocalDefect ==
    \/ ~cfg.sections
    \/ TokenKey(cfg.platform) \notin cfg.env
    \/ cfg.submode \notin {"register", "protocol"}
    \/ \E k \in {"short_name_template", "category_id", "agency_ipa_code"} :
            k \notin DOMAIN cfg.agency_config \/ cfg.agency_config[k] = <<>>

C12_NoRemoteCallOnInvalidConfig ==
    /\ LocalDefect => (log = <<>> /\ pc \in {"start", "failed"} /\ files = NoFiles)
    /\ (pc = "failed" /\ log = <<>>) =>
            (LocalDefect \/ (cfg.platform = "github" /\ ~cfg.github_owner))

C12_Witness ==
    /\ pc = "failed"
    /\ log = <<>>
    /\ TokenKey(cfg.platform) \notin cfg.env
    /\ cfg.env # {}

(* C13: when the resolved origin name ends in X-Y, X and Y non-empty runs of
   letters and digits (X the whole run before the last hyphen), the derived name is
   the origin name with that X-Y replaced by the upper-cased suffix: it ends with the
   upper-cased suffix, and what stands before it is, character by character, what
   stands before X-Y in the origin name *)
EndsInXY(s) ==
    \E h \in 2..(Len(s) - 1) :
        /\ s[h] = "-"
        /\ IsAlnum(s[h - 1])
        /\ \A k \in (h + 1)..Len(s) : IsAlnum(s[k])

LastHyphen(s) == CHOOSE h \in 1..Len(s) : s[h] = "-" /\ \A k \in (h + 1)..Len(s) : s[k] # "-"

\* where X begins: the run of letters and digits before the last hyphen
XStart(s) ==
    CHOOSE i \in 1..(LastHyphen(s) - 1) :
        /\ \A k \in i..(LastHyphen(s) - 1) : IsAlnum(s[k])
        /\ i = 1 \/ ~IsAlnum(s[i - 1])

C13_DeriveReplacesSuffix ==
    (origin # <<>> /\ EndsInXY(origin)) =>
        LET t == cfg.agency_config.short_name_template
            keep == XStart(origin) - 1
        IN  /\ outcome # "name_pattern"
            /\ Len(newName) = keep + Len(t)
            /\ \A k \in 1..keep : newName[k] = origin[k]
            /\ \A k \in 1..Len(t) : newName[keep + k] = UpperChar(t[k])

C13_Witness ==
    /\ pc = "create"
    /\ origin = <<"_", "a", "B", "-", "9">>
    /\ newName = <<"_", "Z", "-", "9">>

(* C14, as stated: for the origin name AGENCY-XY and the template ZZ-99 the
   destination is requested under the name AGENCY-ZZ-99 *)
AgencyXY == <<"A", "G", "E", "N", "C", "Y", "-", "X", "Y">>
ZZ99 == <<"Z", "Z", "-", "9", "9">>
IsAgencyCase == cfg.origin_name = AgencyXY /\ cfg.agency_config.short_name_template = ZZ99

C14_AgencyPrefixKept ==
    IsAgencyCase =>
        \A i \in DOMAIN log :
            log[i].op = "create_project" =>
                log[i].arg = <<"A", "G", "E", "N", "C", "Y", "-", "Z", "Z", "-", "9", "9">>

(* C14, amended: for the origin name AGENCY-XY and the template ZZ-99 the destination
   is requested under the name ZZ-99: the whole origin name is the suffix that is
   replaced, and no leading segment is kept *)
C14_AgencyReplacedWhole ==
    IsAgencyCase =>
        \A i \in DOMAIN log : log[i].op = "create_project" => log[i].arg = ZZ99

C14_Witness ==
    /\ IsAgencyCase
    /\ Len(log) >= 1
    /\ log[Len(log)].op = "create_project"
    /\ log[Len(log)].res = "ok"
    /\ ZZ99 \in projects

(* C15: when the name of the resolved origin does not end in letters-or-digits,
   hyphen, letters-or-digits, the run fails with the name-pattern error right after
   the lookup: no creation is requested and no project is created *)
C15_MalformedOriginFails ==
    (origin # <<>> /\ ~EndsInXY(origin)) =>
        /\ pc = "failed"
        /\ outcome = "name_pattern"
        /\ \A i \in DOMAIN log : log[i].op # "create_project"
        /\ projects = {cfg.origin_name}

C15_Witness ==
    /\ outcome = "name_pattern"
    /\ origin = <<"a", "-", "B", "_">>
    /\ cfg.platform = "github"

(* C16: the lookup of the origin, once it has been answered, yields a project in
   scope whose name is the configured origin name up to letter case whenever there is
   one, and never a project whose name differs otherwise; when no project matches,
   the run fails with the origin-not-found error right after the lookup, before any
   creation request *)
OriginMatches ==
    LET want == Lower(cfg.origin_name)
    IN  {p \in projects : Lower(p) = want}
LookupAnswered ==
    \E i \in DOMAIN log :
        log[i].op \in {"list", "repo_get"} /\ log[i].res \in {"ok", "found", "absent"}

C16_ResolveIgnoresCase ==
    LET matches == OriginMatches
    IN  /\ origin # <<>> => origin \in matches
        /\ (LookupAnswered /\ matches # {}) =>
                (origin \in matches /\ outcome # "origin_not_found")
        /\ (LookupAnswered /\ matches = {}) =>
                /\ origin = <<>>
                /\ pc = "failed"
                /\ outcome = "origin_not_found"
                /\ log[Len(log)].op \in {"list", "repo_get"}
                /\ \A i \in DOMAIN log : log[i].op # "create_project"

C16_Witness ==
    /\ cfg.platform = "gitlab"
    /\ origin = Upper(cfg.origin_name)
    /\ origin # cfg.origin_name
    /\ OtherName \in projects
    /\ pc = "done"

(* Reading a CSV text back *)

RECURSIVE TextLines(_)
\* the lines of a text, each ended by a line break
TextLines(text) ==
    IF text = <<>> THEN <<>>
    ELSE IF \E k \in 1..Len(text) : text[k] = NL
    THEN LET k == CHOOSE k \in 1..Len(text) :
                    text[k] = NL /\ \A j \in 1..(k - 1) : text[j] # NL
         IN  <<SubSeq(text, 1, k - 1)>> \o TextLines(SubSeq(text, k + 1, Len(text)))
    ELSE <<text>>

\* the semicolons of a line that stand outside double quotes
Delimiters(line) ==
    {i \in 1..Len(line) :
        /\ line[i] = SEMI
        /\ Cardinality({j \in 1..(i - 1) : line[j] = DQ}) % 2 = 0}

\* the number of semicolon-delimited columns of a line
ColumnCount(line) == Cardinality(Delimiters(line)) + 1

NthDelimiter(line, c) ==
    CHOOSE i \in Delimiters(line) : Cardinality({j \in Delimiters(line) : j < i}) = c - 1

\* the text of column c of a line
Column(line, c) ==
    SubSeq(line,
           IF c = 1 THEN 1 ELSE NthDelimiter(line, c - 1) + 1,
           IF c = ColumnCount(line) THEN Len(line) ELSE NthDelimiter(line, c) - 1)

\* field h of entry k of a section is absent or null
NoEntryValue(section, k, h) ==
    \/ k \notin DOMAIN section.entries
    \/ <<k, h>> \notin DOMAIN section.entries[k]
    \/ section.entries[k][<<k, h>>].null

\* the rows of a section's CSV text show its absent and null fields as ""
EmptyShown(text, section, headers) ==
    \A k \in 1..(Len(TextLines(text)) - 1), c \in 1..Len(headers) :
        NoEntryValue(section, k, headers[c]) =>
            /\ c <= ColumnCount(TextLines(text)[k + 1])
            /\ Column(TextLines(text)[k + 1], c) = <<DQ, DQ>>

C18_RowsMatchHeaderWidth ==
    pc = "built" =>
        /\ \A u \in DOMAIN todo :
                \A k \in 2..Len(TextLines(todo[u].content)) :
                    ColumnCount(TextLines(todo[u].content)[k])
                        = ColumnCount(TextLines(todo[u].content)[1])
        /\ \A u \in DOMAIN todo :
                IF todo[u].path = AooCsvPath
                THEN EmptyShown(todo[u].content, cfg.protocol_config.AOO, AooHeaders)
                ELSE IF todo[u].path = UoCsvPath
                THEN EmptyShown(todo[u].content, cfg.protocol_config.UO, UoHeaders)
                ELSE \A c \in 1..Len(RegisterHeaders) :
                        (\/ RegisterHeaders[c] \notin
                                DOMAIN RegisterTemplate(cfg.register_config)
                         \/ RegisterTemplate(cfg.register_config)[RegisterHeaders[c]].null)
                        => /\ c <= ColumnCount(TextLines(todo[u].content)[2])
                           /\ Column(TextLines(todo[u].content)[2], c) = <<DQ, DQ>>

(* C19: for each of AOO and UO: when the section is absent or its number is 0, no
   file is built for it; when the number is N > 0, the text is the header line
   followed by exactly N data lines, line k made of the fields of entry k in the
   order of the header, for k = 1..N in increasing order, a missing entry or field
   giving empty values *)
\* what the text of a section must be: the header, then one line per entry 1..n
ExpectedValue(section, k, h) ==
    IF NoEntryValue(section, k, h) THEN <<>> ELSE section.entries[k][<<k, h>>].s

SectionBuilt(section, path, headers) ==
    LET n == IF section.absent THEN 0 ELSE section.number
        at == {u \in DOMAIN todo : todo[u].path = path}
    IN  IF n = 0 THEN at = {}
        ELSE /\ Cardinality(at) = 1
             /\ \A u \in at :
                    LET ls == TextLines(todo[u].content)
                    IN  /\ Len(ls) = n + 1
                        /\ ls[1] = CsvLine([c \in 1..Len(headers) |-> <<headers[c]>>])
                        /\ \A k \in 1..n :
                                ls[k + 1] = CsvLine([c \in 1..Len(headers) |->
                                                ExpectedValue(section, k, headers[c])])

C19_ProtocolRows ==
    (pc = "built" /\ cfg.submode = "protocol") =>
        /\ SectionBuilt(cfg.protocol_config.AOO, <<"settings", "AOO.csv">>, AooHeaders)
        /\ SectionBuilt(cfg.protocol_config.UO, <<"settings", "UO.csv">>, UoHeaders)

C19_Witness ==
    /\ pc = "built"
    /\ cfg.submode = "protocol"
    /\ cfg.protocol_config.AOO.number = 2
    /\ DOMAIN cfg.protocol_config.AOO.entries = {2}
    /\ cfg.protocol_config.UO.absent
    /\ Len(todo) = 1

(* C20, as stated: after a successful run with N configured users the branch holds
   exactly N user settings files, one per configured user, each with the configured
   short_name and professional_category_id *)
IsUserSettingsPath(path) == Len(path) = 3 /\ path[3] = "_etlSetting.yml"
ConfiguredPaths ==
    {<<"settings", cfg.users.names[k], "_etlSetting.yml">> : k \in 1..cfg.users.number}

\* the value of the line of a settings file that begins with key
SettingValue(content, key) ==
    content[CHOOSE i \in DOMAIN content : content[i][1] = key][2]

HasAgencySettings(path) ==
    /\ path \in DOMAIN files
    /\ \E i \in DOMAIN files[path] : files[path][i][1] = "short_name"
    /\ SettingValue(files[path], "short_name") = cfg.agency_config.short_name_template
    /\ \E i \in DOMAIN files[path] : files[path][i][1] = "professional_category_id"
    /\ SettingValue(files[path], "professional_category_id") = cfg.agency_config.category_id

C20_ExactlyNUserFiles ==
    (pc = "done" /\ outcome = "ok") =>
        /\ Cardinality({path \in DOMAIN files : IsUserSettingsPath(path)}) = cfg.users.number
        /\ \A path \in ConfiguredPaths : HasAgencySettings(path)

(* C20, amended: after a successful run the branch holds, for each configured user,
   the file settings/<name>_etlSetting.yml with the configured short_name and
   professional_category_id; the run writes these user settings files and no other:
   as many files as there are distinct configured names (N when the N names differ);
   any other user settings file on the branch is one the import brought from the
   origin project *)
C20_OneFilePerUserName ==
    (pc = "done" /\ outcome = "ok") =>
        /\ \A path \in ConfiguredPaths : HasAgencySettings(path)
        /\ {done[i].path : i \in {j \in DOMAIN done : IsUserSettingsPath(done[j].path)}}
                = ConfiguredPaths
        /\ Cardinality(ConfiguredPaths)
                = Cardinality({cfg.users.names[k] : k \in 1..cfg.users.number})
        /\ \A path \in DOMAIN files :
                (IsUserSettingsPath(path) /\ path \notin ConfiguredPaths)
                    => files[path] = TemplateContent

C20_Witness ==
    /\ pc = "done" /\ outcome = "ok"
    /\ cfg.users.number = 2
    /\ cfg.users.names[1] = cfg.users.names[2]
    /\ Cardinality({path \in DOMAIN files : IsUserSettingsPath(path)}) = 2

(* C21: a failed request of an upsert is fatal and the same call issues nothing
   after it: a read that is answered neither with the file nor with 'not found' (an
   HTTP error such as 401 or 500, or no answer at all) is the last request of the
   run, which has failed; so is a write that is refused or fails *)
C21_UpsertReadFailureFatal ==
    \A i \in DOMAIN log :
        /\ (log[i].op = "get" /\ log[i].res \notin {"found", "absent"}) =>
                /\ i = Len(log)
                /\ pc = "failed"
                /\ outcome \notin {"ok", "running"}
        /\ (IsFileWrite(log[i]) /\ log[i].res # "ok") =>
                /\ i = Len(log)
                /\ pc = "failed"

(* C22: a run of the mode ls-remote-prj is read-only on both platforms: the only
   requests it issues are the authentication and the listing (no project creation,
   no import, no default-branch request, no read or write of a file), and no step
   of it changes the projects in scope or the files of a branch *)
C22_LsReadOnly ==
    /\ [](\A i \in DOMAIN log : log[i].op \in {"auth", "list"})
    /\ [][projects' = projects /\ files' = files]_vars

C22_Witness ==
    /\ pc = "done"
    /\ outcome = "ok"
    /\ cfg.platform = "github"
    /\ Len(log) = 1
    /\ DOMAIN files # {}

(* C23: a create run that ends with a configuration error has created no
   destination project, and a run with an invalid users section (number not
   positive, or some user1..userN missing) requests no creation and no file: it is
   rejected before the destination is created *)
C23_InvalidUsersRejectedBeforeCreate ==
    /\ outcome = "config" =>
            \A i \in DOMAIN log : ~(log[i].op = "create_project" /\ log[i].res = "ok")
    /\ ~ensure_users(cfg.users).ok =>
            \A i \in DOMAIN log : log[i].op # "create_project" /\ ~IsFileReq(log[i])

(* C24: for the same configuration and the same profile, once the import has
   completed, the GitLab and the GitHub workflow make the same sequence of upsert
   calls (same paths, contents and commit messages), or both end before their first
   upsert: when no request of either run is refused or fails, the calls that
   returned in the GitHub run are those that returned in the GitLab run *)
C24_SameUpsertsOnBothPlatforms ==
    (runs = 2 /\ pc \in {"done", "failed"} /\ prev.clean /\ Undisturbed(log)) =>
        /\ done = prev.done
        /\ outcome = prev.outcome

(* C25: in the wait loop the deadline is looked at only after a poll that answered
   a non-terminal status. The loop is never left, and never sleeps, without a poll
   made (with a timeout of 0 too); a poll that answers finished/complete (or no
   status) makes the loop return and a poll that answers failed/error ends the run
   with the platform failure, also after the deadline has passed, never with the
   timeout; the timeout is reported only right after a poll that answered a
   non-terminal status with the clock past the deadline; two consecutive polls have
   exactly one sleep between them, and a sleep lasts poll_sec *)
C25_DeadlineAfterNonTerminalPoll ==
    /\ [](/\ pc \notin {"idle", "poll"} => Len(PollSeq) >= 1
          /\ \A i \in DOMAIN log :
                /\ (IsPoll(log[i]) /\ log[i].res \in SuccessStatuses) =>
                        (outcome # "import_timeout" /\ WaitReturned)
                /\ (IsPoll(log[i]) /\ log[i].res = FailedStatus) =>
                        outcome = "import_failed"
          /\ outcome = "import_timeout" =>
                /\ IsPoll(log[Len(log)])
                /\ log[Len(log)].res = BusyStatus
                /\ now > deadline
          /\ \A i, j \in DOMAIN log :
                (/\ i < j
                 /\ IsPoll(log[i])
                 /\ IsPoll(log[j])
                 /\ \A k \in (i + 1)..(j - 1) : ~IsPoll(log[k]))
                    => (j = i + 2 /\ log[i + 1].op = "sleep"))
    /\ [][pc = "sleep" => (now' = now + poll_sec /\ pc' = "poll")]_vars

C25_Witness ==
    /\ deadline = 0
    /\ cfg.platform = "gitlab"
    /\ Len(PollSeq) = 2
    /\ PollSeq[1].res = "started"
    /\ PollSeq[2].res = "finished"
    /\ now > deadline
    /\ pc = "gl_users"

=============================================================================
